---- MODULE Spec2Model ----
(***************************************************************************)
(* Model of pdftool's document editor (src/src/pdf.rs): the page tree      *)
(* index (PagesDict, PagesDictMut, Pages), the link annotation operations  *)
(* and page creation of Pdf.  A lopdf Document is an object store          *)
(* `objects` (object id -> dictionary) with the id counter `max_id`; a     *)
(* dictionary is a function from key names to values, and a key that is    *)
(* absent from the dictionary is absent from the function's domain.        *)
(***************************************************************************)
EXTENDS Integers, Sequences, FiniteSets, TLC

VARIABLES
    objects,    \* Pdf.doc.objects: object id -> dictionary
    max_id,     \* Pdf.doc.max_id: the last object id handed out
    pages_id,   \* Pdf.pages_id: the id of the root Pages node
    last        \* the call whose result the caller is being handed: the
                \* operation, its arguments, its result and the object
                \* store it was applied to; NoCall between two calls

vars == <<objects, max_id, pages_id, last>>

-----------------------------------------------------------------------------
(* Bounds of the model *)

\* Largest number of nodes below the root in a loaded page tree.
MaxInitNodes == 2

\* Largest number of Page objects in the store: add_page is not called
\* beyond it.
MaxPages == 3

\* Largest number of Link annotations in the store: add_link is not called
\* beyond it.
MaxLinks == 1

\* The pages a document is grown to by add_png.
MaxPngPages == 1

\* Width in bits of the usize the flat index is held in.  Rust's usize is at
\* least 16 bits wide; a wrapped index is then above every leaf count here.
UsizeBits == 16

UsizeModulus == 2 ^ UsizeBits

-----------------------------------------------------------------------------
(* lopdf::Dictionary *)

Has(dict, key) == key \in DOMAIN dict

DictSet(dict, key, value) ==
    [k \in DOMAIN dict \cup {key} |-> IF k = key THEN value ELSE dict[k]]

DictRemove(dict, key) == [k \in DOMAIN dict \ {key} |-> dict[k]]

\* Vec::insert(index, x) and Vec::remove(index), index counted from 0.
VecInsert(v, index, x) ==
    SubSeq(v, 1, index) \o <<x>> \o SubSeq(v, index + 1, Len(v))

VecRemove(v, index) == SubSeq(v, 1, index) \o SubSeq(v, index + 2, Len(v))

-----------------------------------------------------------------------------
(* PagesDict / PagesDictMut *)

kids(dict) == dict.Kids

count(dict) == dict.Count

set_count(dict, c) == DictSet(dict, "Count", c)

PagesDictMut_push(dict, page_id) ==
    set_count(DictSet(dict, "Kids", Append(kids(dict), page_id)),
              count(dict) + 1)

\* insert with the page put after the child at index, not before it.
PagesDictMut_insert_after(dict, index, page_id) ==
    set_count(DictSet(dict, "Kids", VecInsert(kids(dict), index + 1, page_id)),
              count(dict) + 1)

PagesDictMut_insert(dict, index, page_id) ==
    set_count(DictSet(dict, "Kids", VecInsert(kids(dict), index, page_id)),
              count(dict) + 1)

\* The dictionary after the removal and the removed reference.
PagesDictMut_remove(dict, index) ==
    [dict   |-> set_count(DictSet(dict, "Kids", VecRemove(kids(dict), index)),
                          count(dict) - 1),
     result |-> kids(dict)[index + 1]]

-----------------------------------------------------------------------------
(* Pages *)

\* push with the page put first among the root's kids.
Pages_push_front(objs, root_id, page_id) ==
    [objs EXCEPT ![root_id] = PagesDictMut_insert(@, 0, page_id)]

Pages_push(objs, root_id, page_id) ==
    [objs EXCEPT ![root_id] = PagesDictMut_push(@, page_id)]

\* `*index -= 1` on a usize: with overflow checks (a debug build) the
\* subtraction from 0 panics, without them (a release build) it wraps.
IndexDecrement(index) == (index - 1) % UsizeModulus

\* find_pages with the countdown decremented at every Pages node too.
RECURSIVE FindFromCountingNodes(_, _, _, _, _)
FindFromCountingNodes(objs, checks, index, id, i) ==
    IF i >= Len(kids(objs[id]))
    THEN [some |-> FALSE, id |-> 0, pos |-> 0, index |-> index, panic |-> FALSE]
    ELSE LET kid == kids(objs[id])[i + 1] IN
         CASE objs[kid].Type = "Pages" ->
                LET result == FindFromCountingNodes(objs, checks,
                                                    IndexDecrement(index), kid, 0)
                IN IF result.some \/ result.panic
                   THEN result
                   ELSE FindFromCountingNodes(objs, checks, result.index, id, i + 1)
           [] objs[kid].Type = "Page" ->
                IF index = 0 /\ checks
                THEN [some |-> FALSE, id |-> 0, pos |-> 0, index |-> index,
                      panic |-> TRUE]
                ELSE IF IndexDecrement(index) = 0
                     THEN [some |-> TRUE, id |-> id, pos |-> i, index |-> 0,
                           panic |-> FALSE]
                     ELSE FindFromCountingNodes(objs, checks,
                                                IndexDecrement(index), id, i + 1)
           [] OTHER -> FindFromCountingNodes(objs, checks, index, id, i + 1)

\* Pages::find_pages from kid number i (from 0) of pages_id on.  The result
\* is [some, id, pos, index, panic]: Some((id, pos)) or None, the countdown
\* left in *index, and whether the call panicked.
RECURSIVE FindFrom(_, _, _, _, _)
FindFrom(objs, checks, index, id, i) ==
    IF i >= Len(kids(objs[id]))
    THEN [some |-> FALSE, id |-> 0, pos |-> 0, index |-> index, panic |-> FALSE]
    ELSE LET kid == kids(objs[id])[i + 1] IN
         CASE objs[kid].Type = "Pages" ->
                LET result == FindFrom(objs, checks, index, kid, 0) IN
                IF result.some \/ result.panic
                THEN result
                ELSE FindFrom(objs, checks, result.index, id, i + 1)
           [] objs[kid].Type = "Page" ->
                IF index = 0 /\ checks
                THEN [some |-> FALSE, id |-> 0, pos |-> 0, index |-> index,
                      panic |-> TRUE]
                ELSE IF IndexDecrement(index) = 0
                     THEN [some |-> TRUE, id |-> id, pos |-> i, index |-> 0,
                           panic |-> FALSE]
                     ELSE FindFrom(objs, checks, IndexDecrement(index), id, i + 1)
           [] OTHER -> FindFrom(objs, checks, index, id, i + 1)

find_pages(objs, checks, index, id) == FindFrom(objs, checks, index, id, 0)

\* Pages::insert: [objects, panic].
Pages_insert(objs, root_id, checks, index, page_id) ==
    LET found == find_pages(objs, checks, index, root_id) IN
    [objects |-> IF found.some
                 THEN [objs EXCEPT ![found.id] =
                           PagesDictMut_insert(@, found.pos, page_id)]
                 ELSE objs,
     panic   |-> found.panic]

\* Pages::remove: [objects, some, result, panic].
Pages_remove(objs, root_id, checks, index) ==
    LET found == find_pages(objs, checks, index, root_id) IN
    IF found.some
    THEN LET removed == PagesDictMut_remove(objs[found.id], found.pos) IN
         [objects |-> [objs EXCEPT ![found.id] = removed.dict],
          some |-> TRUE, result |-> removed.result, panic |-> FALSE]
    ELSE [objects |-> objs, some |-> FALSE, result |-> 0, panic |-> found.panic]

-----------------------------------------------------------------------------
(* Reading the tree: the depth-first, left-to-right order of the Page      *)
(* leaves, as lopdf's Document::get_pages numbers them from 1.             *)

RECURSIVE LeavesFrom(_, _, _)
LeavesFrom(objs, id, i) ==
    IF i > Len(objs[id].Kids)
    THEN <<>>
    ELSE LET kid == objs[id].Kids[i] IN
         (CASE objs[kid].Type = "Pages" -> LeavesFrom(objs, kid, 1)
            [] objs[kid].Type = "Page" -> <<kid>>
            [] OTHER -> <<>>)
         \o LeavesFrom(objs, id, i + 1)

Leaves(objs, id) == LeavesFrom(objs, id, 1)

-----------------------------------------------------------------------------
(* Construction *)

\* Object::Reference: the value of an entry that names an object by its id.
Reference(id) == [kind |-> "Reference", id |-> id]

\* Pdf::new: the Info record, the Catalog and an empty root Pages node.
NewObjects ==
    [id \in 1..3 |->
        CASE id = 1 -> [Type |-> "Info"]
          [] id = 2 -> [Type |-> "Catalog", Pages |-> Reference(3)]
          [] id = 3 -> [Type |-> "Pages", Count |-> 0, Kids |-> <<>>]]

\* The ids of a set in increasing order.
RECURSIVE Ascending(_)
Ascending(S) ==
    IF S = {}
    THEN <<>>
    ELSE LET least == CHOOSE x \in S : \A y \in S : x <= y
         IN <<least>> \o Ascending(S \ {least})

\* The page trees Pdf::load can hand over: n nodes below the root (ids
\* 4..3+n), each a Pages node or a Page, each the kid of the root or of an
\* earlier Pages node.
Shapes(n) ==
    {s \in [4..(3 + n) -> [Type : {"Pages", "Page"}, Parent : 3..(3 + n)]] :
        \A k \in 4..(3 + n) :
            /\ s[k].Parent < k
            /\ s[k].Parent # 3 => s[s[k].Parent].Type = "Pages"}

ShapeKids(s, n, id) == Ascending({k \in 4..(3 + n) : s[k].Parent = id})

\* What a loaded page carries: "plain" a MediaBox of its own, "inherit" no
\* MediaBox (it inherits its parent's), "noted" a MediaBox and an Annots
\* array holding one annotation made by another tool.
Variants == {"plain", "inherit", "noted"}

ShapePages(s, n) == {k \in 4..(3 + n) : s[k].Type = "Page"}

\* The id of the annotation object of the noted page k: the annotation
\* objects follow the tree nodes, in the order of their pages.
NoteId(s, n, v, k) ==
    3 + n + Cardinality({j \in ShapePages(s, n) : v[j] = "noted" /\ j <= k})

LoadedPage(s, n, v, k) ==
    CASE v[k] = "plain" ->
           [Type |-> "Page", Parent |-> s[k].Parent,
            MediaBox |-> <<0, 0, 100, 200>>]
      [] v[k] = "inherit" ->
           [Type |-> "Page", Parent |-> s[k].Parent]
      [] v[k] = "noted" ->
           [Type |-> "Page", Parent |-> s[k].Parent,
            MediaBox |-> <<0, 0, 30, 40>>,
            Annots |-> <<NoteId(s, n, v, k)>>]

\* The object store of a loaded document, every Count still to be filled in.
ShapeObjects(s, n, v) ==
    [id \in 1..(3 + n + Cardinality({k \in ShapePages(s, n) : v[k] = "noted"})) |->
        CASE id = 1 -> [Type |-> "Info"]
          [] id = 2 -> [Type |-> "Catalog", Pages |-> Reference(3)]
          [] id = 3 -> [Type |-> "Pages", Count |-> 0,
                        Kids |-> ShapeKids(s, n, 3)]
          [] id > 3 + n ->
               [Type |-> "Annot", Subtype |-> "Text", Rect |-> <<0, 0, 10, 10>>]
          [] OTHER ->
               IF s[id].Type = "Pages"
               THEN [Type |-> "Pages", Parent |-> s[id].Parent, Count |-> 0,
                     Kids |-> ShapeKids(s, n, id)]
               ELSE LoadedPage(s, n, v, id)]

\* A well-formed document: every Pages node's Count is its leaf count.
WithCounts(objs) ==
    [id \in DOMAIN objs |->
        IF objs[id].Type = "Pages"
        THEN DictSet(objs[id], "Count", Len(Leaves(objs, id)))
        ELSE objs[id]]

\* The loaded documents whose pages are all plain: every page tree shape.
LoadedTrees ==
    UNION {{WithCounts(ShapeObjects(s, n, [k \in ShapePages(s, n) |-> "plain"])) :
               s \in Shapes(n)} : n \in 0..MaxInitNodes}

\* The loaded documents, their pages of every variant.
LoadedDocs ==
    UNION {UNION {{WithCounts(ShapeObjects(s, n, v)) :
                      v \in [ShapePages(s, n) -> Variants]} :
                  s \in Shapes(n)} : n \in 0..MaxInitNodes}

\* A call record: the operation, its arguments, its result and the object
\* store (pre) it was applied to.
Call(op, a, b, res, ret, pos, pre) ==
    [op |-> op, a |-> a, b |-> b, res |-> res, ret |-> ret, pos |-> pos,
     pre |-> pre]

\* No call is under way: the caller is about to make the next one.
NoCall == Call("none", 0, 0, "ok", 0, 0, <<>>)

\* A document as Pdf::load returns it (Pdf::new's document among them).
InitPages ==
    /\ objects \in LoadedTrees
    /\ max_id = Len(objects)
    /\ pages_id = 3
    /\ last = NoCall

\* The document as Pdf::new makes it.
InitNew ==
    /\ objects = NewObjects
    /\ max_id = Len(objects)
    /\ pages_id = 3
    /\ last = NoCall

-----------------------------------------------------------------------------
(* Operations *)

\* The caller makes one call at a time.
Running == last.op = "none"

\* The caller takes the result of the call and goes on.  A panic aborts the
\* process: nothing follows it.
Return ==
    /\ last.op # "none"
    /\ last.res # "panic"
    /\ last' = NoCall
    /\ UNCHANGED <<objects, max_id, pages_id>>

\* The builds a call made with the flat index `index` tells apart: with
\* overflow checks or without.  Only a countdown of 0 is ever decremented
\* below 0, and a countdown is 0 at a Page only when the call starts at 0.
Builds(index) == IF index = 0 THEN BOOLEAN ELSE {FALSE}

LeafCount == Len(Leaves(objects, pages_id))

\* The Type entry of a dictionary, "" when it has none.
TypeOf(dict) == IF Has(dict, "Type") THEN dict.Type ELSE ""

PageIds(objs) == {id \in DOMAIN objs : TypeOf(objs[id]) = "Page"}

Range(seq) == {seq[i] : i \in 1..Len(seq)}

\* Page objects of the store that are in no Kids array of the tree.
Detached == PageIds(objects) \ Range(Leaves(objects, pages_id))

\* Pdf::add_page: [objects, max_id, page_id].
Pdf_add_page(objs, maxid, root_id, width, height) ==
    LET page_id == maxid + 1
        contents_id == maxid + 2
        stored == [id \in 1..(maxid + 2) |->
                     CASE id = page_id ->
                            [Type |-> "Page", Parent |-> root_id,
                             MediaBox |-> <<0, 0, width, height>>,
                             Contents |-> contents_id]
                       [] id = contents_id -> [Type |-> "Stream"]
                       [] OTHER -> objs[id]]
    IN [objects |-> Pages_push(stored, root_id, page_id),
        max_id |-> maxid + 2,
        page_id |-> page_id]

add_page(width, height) ==
    /\ Running
    /\ Cardinality(PageIds(objects)) < MaxPages
    /\ LET r == Pdf_add_page(objects, max_id, pages_id, width, height) IN
       /\ objects' = r.objects
       /\ max_id' = r.max_id
       /\ last' = Call("add_page", width, height, "ok", r.page_id, 0, objects)
    /\ UNCHANGED pages_id

\* Pdf::move_page: [objects, res].
Pdf_move_page(objs, root_id, checks, from, to) ==
    LET removed == Pages_remove(objs, root_id, checks, from) IN
    IF removed.panic
    THEN [objects |-> objs, res |-> "panic"]
    ELSE IF ~removed.some
    THEN [objects |-> objs, res |-> "err"]
    ELSE LET inserted == Pages_insert(removed.objects, root_id, checks, to,
                                      removed.result)
         IN [objects |-> inserted.objects,
             res |-> IF inserted.panic THEN "panic" ELSE "ok"]

move_page(from, to) ==
    /\ Running
    /\ \E checks \in Builds(from) \cup Builds(to) :
         LET r == Pdf_move_page(objects, pages_id, checks, from, to) IN
         /\ objects' = r.objects
         /\ last' = Call("move_page", from, to, r.res, 0, 0, objects)
    /\ UNCHANGED <<max_id, pages_id>>

\* Pages::find_pages called on the root with *index = index.
CallFindPages(index) ==
    /\ Running
    /\ \E checks \in Builds(index) :
         LET r == find_pages(objects, checks, index, pages_id) IN
         last' = Call("find_pages", index, 0,
                      IF r.panic THEN "panic" ELSE IF r.some THEN "some" ELSE "none",
                      r.id, r.pos, objects)
    /\ UNCHANGED <<objects, max_id, pages_id>>

\* Pages::insert of a page that is in the store and not in the tree.
CallInsert(index, page_id) ==
    /\ Running
    /\ \E checks \in Builds(index) :
         LET r == Pages_insert(objects, pages_id, checks, index, page_id) IN
         /\ objects' = r.objects
         /\ last' = Call("insert", index, page_id,
                         IF r.panic THEN "panic" ELSE "ok", 0, 0, objects)
    /\ UNCHANGED <<max_id, pages_id>>

\* Pages::remove, called as move_page calls it: while no page removed
\* earlier is waiting to be inserted.
CallRemove(index) ==
    /\ Running
    /\ Detached = {}
    /\ \E checks \in Builds(index) :
         LET r == Pages_remove(objects, pages_id, checks, index) IN
         /\ objects' = r.objects
         /\ last' = Call("remove", index, 0,
                         IF r.panic THEN "panic"
                         ELSE IF r.some THEN "some" ELSE "none",
                         r.result, 0, objects)
    /\ UNCHANGED <<max_id, pages_id>>

\* The flat indices the calls are made with: 0, every page and one past the
\* last page.
Indices == 0..(LeafCount + 1)

-----------------------------------------------------------------------------
(* Pages by number, link annotations *)

\* Pdf::get_page_id: [ok, id].  lopdf's get_pages numbers the Page leaves
\* from 1 in depth-first order.
get_page_id(objs, root_id, num) ==
    IF num \in 1..Len(Leaves(objs, root_id))
    THEN [ok |-> TRUE, id |-> Leaves(objs, root_id)[num]]
    ELSE [ok |-> FALSE, id |-> 0]

\* Document::add_object.
add_object(objs, dict) == Append(objs, dict)

\* add_link with the annotation added to the Annots the page already holds.
Pdf_add_link_merging(objs, root_id, link, page) ==
    LET page_id == get_page_id(objs, root_id, page) IN
    IF ~page_id.ok
    THEN [objects |-> objs, res |-> "err"]
    ELSE IF ~Has(objs[page_id.id], "MediaBox")
    THEN [objects |-> objs, res |-> "err"]
    ELSE LET rect == objs[page_id.id].MediaBox
             url_id == Len(objs) + 1
             annot_id == Len(objs) + 2
             with_url == add_object(objs, [S |-> "URI", URI |-> link])
             with_annot ==
                 add_object(with_url,
                            [Type |-> "Annot", Subtype |-> "Link", A |-> url_id,
                             Rect |-> rect, Border |-> <<0, 0, 0>>, F |-> 4])
             held == IF Has(objs[page_id.id], "Annots")
                     THEN objs[page_id.id].Annots
                     ELSE <<>>
         IN [objects |-> [with_annot EXCEPT ![page_id.id] =
                              DictSet(@, "Annots", Append(held, annot_id))],
             res |-> "ok"]

\* Pdf::add_link: [objects, res].
Pdf_add_link(objs, root_id, link, page) ==
    LET page_id == get_page_id(objs, root_id, page) IN
    IF ~page_id.ok
    THEN [objects |-> objs, res |-> "err"]
    ELSE IF ~Has(objs[page_id.id], "MediaBox")
    THEN [objects |-> objs, res |-> "err"]
    ELSE LET rect == objs[page_id.id].MediaBox
             url_id == Len(objs) + 1
             annot_id == Len(objs) + 2
             with_url == add_object(objs, [S |-> "URI", URI |-> link])
             with_annot ==
                 add_object(with_url,
                            [Type |-> "Annot", Subtype |-> "Link", A |-> url_id,
                             Rect |-> rect, Border |-> <<0, 0, 0>>, F |-> 4])
         IN [objects |-> [with_annot EXCEPT ![page_id.id] =
                              DictSet(@, "Annots", <<annot_id>>)],
             res |-> "ok"]

\* Pdf::remove_link: [objects, res].
Pdf_remove_link(objs, root_id, page) ==
    LET page_id == get_page_id(objs, root_id, page) IN
    IF ~page_id.ok
    THEN [objects |-> objs, res |-> "err"]
    ELSE [objects |-> [objs EXCEPT ![page_id.id] = DictRemove(@, "Annots")],
          res |-> "ok"]

\* move_link that keeps the annotation the destination already holds.
Pdf_move_link_keeping(objs, root_id, from, to) ==
    LET from_id == get_page_id(objs, root_id, from)
        to_id == get_page_id(objs, root_id, to)
    IN IF ~from_id.ok \/ ~to_id.ok
       THEN [objects |-> objs, res |-> "err"]
       ELSE LET removed == [objs EXCEPT ![from_id.id] = DictRemove(@, "Annots")]
            IN [objects |->
                    IF /\ Has(objs[from_id.id], "Annots")
                       /\ ~Has(removed[to_id.id], "Annots")
                    THEN [removed EXCEPT ![to_id.id] =
                              DictSet(@, "Annots", objs[from_id.id].Annots)]
                    ELSE removed,
                res |-> "ok"]

\* move_link that takes the annotation off the source before it looks the
\* destination up.
Pdf_move_link_removing(objs, root_id, from, to) ==
    LET from_id == get_page_id(objs, root_id, from)
        to_id == get_page_id(objs, root_id, to)
    IN IF ~from_id.ok
       THEN [objects |-> objs, res |-> "err"]
       ELSE LET removed == [objs EXCEPT ![from_id.id] = DictRemove(@, "Annots")]
            IN IF ~to_id.ok
               THEN [objects |-> removed, res |-> "err"]
               ELSE [objects |->
                         IF Has(objs[from_id.id], "Annots")
                         THEN [removed EXCEPT ![to_id.id] =
                                   DictSet(@, "Annots", objs[from_id.id].Annots)]
                         ELSE removed,
                     res |-> "ok"]

\* Pdf::move_link: [objects, res].
Pdf_move_link(objs, root_id, from, to) ==
    LET from_id == get_page_id(objs, root_id, from)
        to_id == get_page_id(objs, root_id, to)
    IN IF ~from_id.ok \/ ~to_id.ok
       THEN [objects |-> objs, res |-> "err"]
       ELSE LET removed == [objs EXCEPT ![from_id.id] = DictRemove(@, "Annots")]
            IN [objects |->
                    IF Has(objs[from_id.id], "Annots")
                    THEN [removed EXCEPT ![to_id.id] =
                              DictSet(@, "Annots", objs[from_id.id].Annots)]
                    ELSE removed,
                res |-> "ok"]

LinkIds(objs) ==
    {id \in DOMAIN objs :
        TypeOf(objs[id]) = "Annot" /\ objs[id].Subtype = "Link"}

\* The link targets the calls are made with.
Uris == {"https://example.com", "https://example.org"}

add_link(link, page) ==
    /\ Running
    /\ Cardinality(LinkIds(objects)) < MaxLinks
    /\ LET r == Pdf_add_link(objects, pages_id, link, page) IN
       /\ objects' = r.objects
       /\ max_id' = Len(r.objects)
       /\ last' = Call("add_link", link, page, r.res, 0, 0, objects)
    /\ UNCHANGED pages_id

remove_link(page) ==
    /\ Running
    /\ LET r == Pdf_remove_link(objects, pages_id, page) IN
       /\ objects' = r.objects
       /\ last' = Call("remove_link", page, 0, r.res, 0, 0, objects)
    /\ UNCHANGED <<max_id, pages_id>>

move_link(from, to) ==
    /\ Running
    /\ LET r == Pdf_move_link(objects, pages_id, from, to) IN
       /\ objects' = r.objects
       /\ last' = Call("move_link", from, to, r.res, 0, 0, objects)
    /\ UNCHANGED <<max_id, pages_id>>

-----------------------------------------------------------------------------
(* Images *)

\* The encoded images the calls are made with: what image::guess_format,
\* image::load_from_memory and the PNG chunk reader tell of their bytes.
Images ==
    {[format |-> "Jpeg", width |-> 30, height |-> 40, color |-> "Rgb8"],
     [format |-> "Jpeg", width |-> 30, height |-> 40, color |-> "Rgba8"],
     [format |-> "Png", width |-> 100, height |-> 50, depth |-> 8,
      color_type |-> 2, interlace |-> FALSE, icc |-> FALSE, palette |-> 0],
     [format |-> "Gif", width |-> 30, height |-> 40]}

\* Document::insert_image: the image stream becomes an object of the store
\* and an XObject of the page's resources.
insert_image(objs, page_id, img_stream) ==
    [add_object(objs, img_stream) EXCEPT ![page_id] =
         DictSet(@, "Resources", [XObject |-> <<Len(objs) + 1>>])]

\* Pdf::add_jpeg: [objects, res, page_id].
Pdf_add_jpeg(objs, root_id, img) ==
    IF img.color \notin {"L8", "L16", "Rgb8", "Rgb16"}
    THEN [objects |-> objs, res |-> "err", page_id |-> 0]
    ELSE LET cs == IF img.color \in {"L8", "L16"} THEN "DeviceGray" ELSE "DeviceRGB"
             bpc == IF img.color \in {"L8", "Rgb8"} THEN 8 ELSE 16
             page == Pdf_add_page(objs, Len(objs), root_id, img.width, img.height)
         IN [objects |->
                 insert_image(page.objects, page.page_id,
                              [Type |-> "XObject", Subtype |-> "Image",
                               Filter |-> "DCTDecode", BitsPerComponent |-> bpc,
                               ColorSpace |-> cs, Width |-> img.width,
                               Height |-> img.height]),
             res |-> "ok", page_id |-> page.page_id]

\* The channels of a pixel in a PNG stream of the given colour-type code.
PngChannels(color_type) ==
    CASE color_type = 0 -> 1
      [] color_type = 2 -> 3
      [] color_type = 3 -> 1
      [] color_type = 4 -> 2
      [] color_type = 6 -> 4
      [] OTHER -> 0

\* The bit depths the PNG format allows for a colour-type code.
PngDepths(color_type) ==
    CASE color_type = 0 -> {1, 2, 4, 8, 16}
      [] color_type = 3 -> {1, 2, 4, 8}
      [] color_type \in {2, 4, 6} -> {8, 16}
      [] OTHER -> {}

\* crate::png::get_info: the header fields of the stream, whether it has an
\* ICC profile chunk and the number of entries of its palette.
get_info(bytes) ==
    [width |-> bytes.width, height |-> bytes.height, depth |-> bytes.depth,
     color_type |-> bytes.color_type, interlace |-> bytes.interlace,
     icc |-> bytes.icc, palette |-> bytes.palette]

\* crate::png::get_idat: the concatenated IDAT chunks of the stream, told by
\* the layout of the scanlines that were compressed into them.
get_idat(bytes) ==
    [depth |-> bytes.depth, channels |-> PngChannels(bytes.color_type),
     columns |-> bytes.width, interlace |-> bytes.interlace]

\* image::load_from_memory on a PNG stream: [ok, color, width, height].  A
\* DynamicImage has 8 or 16 bits a channel and no palette: the decoder widens
\* smaller depths to 8 bits and looks every palette index up.
load_from_memory(bytes) ==
    IF bytes.depth \notin PngDepths(bytes.color_type)
    THEN [ok |-> FALSE, color |-> "", width |-> 0, height |-> 0]
    ELSE [ok |-> TRUE,
          color |-> CASE bytes.color_type = 0 ->
                             IF bytes.depth = 16 THEN "L16" ELSE "L8"
                      [] bytes.color_type = 2 ->
                             IF bytes.depth = 16 THEN "Rgb16" ELSE "Rgb8"
                      [] bytes.color_type = 3 -> "Rgb8"
                      [] bytes.color_type = 4 ->
                             IF bytes.depth = 16 THEN "La16" ELSE "La8"
                      [] OTHER ->
                             IF bytes.depth = 16 THEN "Rgba16" ELSE "Rgba8",
          width |-> bytes.width, height |-> bytes.height]

\* DynamicImage::write_to(_, ImageFormat::Png): the PNG stream of an image,
\* never interlaced, with neither a profile nor a palette.
write_to(img) ==
    [format |-> "Png", width |-> img.width, height |-> img.height,
     depth |-> IF img.color \in {"L16", "La16", "Rgb16", "Rgba16"}
               THEN 16 ELSE 8,
     color_type |-> CASE img.color \in {"L8", "L16"} -> 0
                      [] img.color \in {"La8", "La16"} -> 4
                      [] img.color \in {"Rgb8", "Rgb16"} -> 2
                      [] OTHER -> 6,
     interlace |-> FALSE, icc |-> FALSE, palette |-> 0]

\* The stream add_png reads the IDAT from: [ok, bytes].  An interlaced stream
\* and one with an alpha channel are decoded and written anew, the alpha
\* channel dropped; any other stream is taken as it is.
PngBytes(bytes, info) ==
    IF info.interlace \/ info.color_type >= 4
    THEN LET img == load_from_memory(bytes) IN
         IF ~img.ok
         THEN [ok |-> FALSE, bytes |-> bytes]
         ELSE CASE info.color_type = 4 ->
                       IF info.depth = 8
                       THEN [ok |-> TRUE,
                             bytes |-> write_to([img EXCEPT !.color = "L8"])]
                       ELSE IF info.depth = 16
                       THEN [ok |-> TRUE,
                             bytes |-> write_to([img EXCEPT !.color = "L16"])]
                       ELSE [ok |-> FALSE, bytes |-> bytes]
                [] info.color_type = 6 ->
                       IF info.depth = 8
                       THEN [ok |-> TRUE,
                             bytes |-> write_to([img EXCEPT !.color = "Rgb8"])]
                       ELSE IF info.depth = 16
                       THEN [ok |-> TRUE,
                             bytes |-> write_to([img EXCEPT !.color = "Rgb16"])]
                       ELSE [ok |-> FALSE, bytes |-> bytes]
                [] OTHER -> [ok |-> TRUE, bytes |-> write_to(img)]
    ELSE [ok |-> TRUE, bytes |-> bytes]

\* let colors = if let 0 | 3 | 4 = info.color_type { 1 } else { 3 }
PngColors(info) == IF info.color_type \in {0, 3, 4} THEN 1 ELSE 3

PngAlternateGrayOnly(info) ==
    IF info.color_type = 0 THEN "DeviceGray" ELSE "DeviceRGB"

PngAlternate(info) ==
    IF info.color_type \in {0, 4} THEN "DeviceGray" ELSE "DeviceRGB"

\* Pdf::add_png: [objects, res, page_id].  The image stream holds the IDAT
\* of the stream PngBytes gives; its dictionary is written from the header
\* of the stream the call was made with.
Pdf_add_png(objs, root_id, bytes) ==
    LET info == get_info(bytes)
        read == PngBytes(bytes, info)
    IN
    IF ~read.ok
    THEN [objects |-> objs, res |-> "err", page_id |-> 0]
    ELSE IF info.color_type \notin {0, 2, 3, 4, 6}
    THEN [objects |-> objs, res |-> "err", page_id |-> 0]
    ELSE LET idat == get_idat(read.bytes)
             with_icc ==
                 IF info.color_type # 3 /\ info.icc
                 THEN add_object(objs, [N |-> PngColors(info),
                                        Alternate |-> PngAlternate(info),
                                        Filter |-> "FlateDecode"])
                 ELSE objs
             cs == IF info.color_type = 3
                   THEN <<"Indexed", "DeviceRGB", info.palette - 1,
                          <<"PLTE", info.palette>> >>
                   ELSE IF info.icc
                   THEN <<"ICCBased", Len(with_icc)>>
                   ELSE <<PngAlternate(info)>>
             page == Pdf_add_page(with_icc, Len(with_icc), root_id,
                                  info.width, info.height)
         IN [objects |->
                 insert_image(page.objects, page.page_id,
                              [Type |-> "XObject", Subtype |-> "Image",
                               Filter |-> "FlateDecode",
                               BitsPerComponent |-> info.depth,
                               Width |-> info.width, Height |-> info.height,
                               DecodeParms |->
                                   [BitsPerComponent |-> info.depth,
                                    Predictor |-> 15,
                                    Columns |-> info.width,
                                    Colors |-> PngColors(info)],
                               ColorSpace |-> cs,
                               Content |-> idat]),
             res |-> "ok", page_id |-> page.page_id]

\* Pdf::add_image: [objects, res, page_id].
Pdf_add_image(objs, root_id, img) ==
    CASE img.format = "Jpeg" -> Pdf_add_jpeg(objs, root_id, img)
      [] img.format = "Png" -> Pdf_add_png(objs, root_id, img)
      [] OTHER -> [objects |-> objs, res |-> "err", page_id |-> 0]

add_image(img) ==
    /\ Running
    /\ Cardinality(PageIds(objects)) < MaxPages
    /\ LET r == Pdf_add_image(objects, pages_id, img) IN
       /\ objects' = r.objects
       /\ max_id' = Len(r.objects)
       /\ last' = Call("add_image", img, 0, r.res, r.page_id, 0, objects)
    /\ UNCHANGED pages_id

\* The PNG streams the calls are made with: every colour type with each of
\* its depths, plain and interlaced, with and without a profile, and two
\* colour-type codes the format does not have.
PngStreams ==
    {[format |-> "Png", width |-> w, height |-> 50, depth |-> c[2],
      color_type |-> c[1], interlace |-> i, icc |-> p,
      palette |-> IF c[1] = 3 THEN 4 ELSE 0] :
        w \in {100, 30}, i \in BOOLEAN, p \in BOOLEAN,
        c \in {t \in {0, 2, 3, 4, 6} \X {1, 2, 4, 8, 16} :
                   t[2] \in PngDepths(t[1])}
              \cup {<<1, 8>>, <<5, 8>>}}

add_png(bytes) ==
    /\ Running
    /\ Cardinality(PageIds(objects)) < MaxPngPages
    /\ LET r == Pdf_add_png(objects, pages_id, bytes) IN
       /\ objects' = r.objects
       /\ max_id' = Len(r.objects)
       /\ last' = Call("add_png", bytes, 0, r.res, r.page_id, 0, objects)
    /\ UNCHANGED pages_id

-----------------------------------------------------------------------------
(* Loading *)

\* The ways the file of a loaded document can be damaged: not a PDF at all,
\* no catalog in the trailer, a catalog without Pages, and a Pages entry
\* that is null or a dictionary written in place.
Damages ==
    {"none", "unreadable", "no_root", "no_pages", "null_pages", "inline_pages"}

\* The files load is called with: [readable, trailer, objects].
PdfFiles ==
    {[readable |-> d # "unreadable",
      trailer |-> IF d = "no_root"
                  THEN [Info |-> Reference(1)]
                  ELSE [Info |-> Reference(1), Root |-> Reference(2)],
      objects |->
          [doc EXCEPT ![2] =
               CASE d = "no_pages" -> DictRemove(@, "Pages")
                 [] d = "null_pages" -> DictSet(@, "Pages", [kind |-> "Null"])
                 [] d = "inline_pages" ->
                        DictSet(@, "Pages",
                                [kind |-> "Dictionary", dict |-> doc[3]])
                 [] OTHER -> @]] :
        d \in Damages, doc \in LoadedDocs}

\* Object::as_reference: [ok, id].
as_reference(obj) ==
    IF obj.kind = "Reference"
    THEN [ok |-> TRUE, id |-> obj.id]
    ELSE [ok |-> FALSE, id |-> 0]

\* Document::catalog: the dictionary the trailer's Root names, [ok, dict].
catalog(file) ==
    IF Has(file.trailer, "Root") /\ as_reference(file.trailer.Root).ok
       /\ as_reference(file.trailer.Root).id \in DOMAIN file.objects
    THEN [ok |-> TRUE,
          dict |-> file.objects[as_reference(file.trailer.Root).id]]
    ELSE [ok |-> FALSE, dict |-> <<>>]

\* catalog.get(b"Pages").and_then(Object::as_reference): [ok, id].
PagesReference(dict) ==
    IF Has(dict, "Pages") THEN as_reference(dict.Pages)
    ELSE [ok |-> FALSE, id |-> 0]

\* Pdf::load: [res, objects, pages_id].  Document::load and catalog() are
\* taken with `?`, the Pages reference with unwrap().
Pdf_load(file) ==
    IF ~file.readable
    THEN [res |-> "err", objects |-> <<>>, pages_id |-> 0]
    ELSE IF ~catalog(file).ok
    THEN [res |-> "err", objects |-> <<>>, pages_id |-> 0]
    ELSE IF ~PagesReference(catalog(file).dict).ok
    THEN [res |-> "panic", objects |-> <<>>, pages_id |-> 0]
    ELSE [res |-> "ok", objects |-> file.objects,
          pages_id |-> PagesReference(catalog(file).dict).id]

\* Document::load(input)?.into() with img2pdf's From<Document> for Pdf:
\* [res, objects, pages_id].  The catalog and the Pages reference are both
\* taken with expect().
Pdf_from(file) ==
    IF ~file.readable
    THEN [res |-> "err", objects |-> <<>>, pages_id |-> 0]
    ELSE IF ~catalog(file).ok
    THEN [res |-> "panic", objects |-> <<>>, pages_id |-> 0]
    ELSE IF ~PagesReference(catalog(file).dict).ok
    THEN [res |-> "panic", objects |-> <<>>, pages_id |-> 0]
    ELSE [res |-> "ok", objects |-> file.objects,
          pages_id |-> PagesReference(catalog(file).dict).id]

\* No Pdf value has been made yet.
InitLoad ==
    /\ objects = <<>>
    /\ max_id = 0
    /\ pages_id = 0
    /\ last = NoCall

load(file) ==
    /\ Running
    /\ objects = <<>>
    /\ LET r == Pdf_load(file) IN
       /\ objects' = r.objects
       /\ max_id' = Len(r.objects)
       /\ pages_id' = r.pages_id
       /\ last' = Call("load", file, 0, r.res, r.pages_id, 0, objects)

into(file) ==
    /\ Running
    /\ objects = <<>>
    /\ LET r == Pdf_from(file) IN
       /\ objects' = r.objects
       /\ max_id' = Len(r.objects)
       /\ pages_id' = r.pages_id
       /\ last' = Call("into", file, 0, r.res, r.pages_id, 0, objects)

-----------------------------------------------------------------------------
(* Specifications *)

\* The page numbers of the calls: 0, every page and one past the last page.
Numbers == 0..(LeafCount + 1)

\* A document as Pdf::load returns it, its pages of every variant.
InitLinks ==
    /\ objects \in LoadedDocs
    /\ max_id = Len(objects)
    /\ pages_id = 3
    /\ last = NoCall

\* The link annotation operations on every loaded document.
NextLinks ==
    \/ \E link \in Uris, page \in Numbers : add_link(link, page)
    \/ \E page \in Numbers : remove_link(page)
    \/ \E from \in Numbers, to \in Numbers : move_link(from, to)
    \/ Return

SpecLinks == InitLinks /\ [][NextLinks]_vars

\* Pages made from images on every loaded page tree.
NextImages ==
    \/ \E img \in Images : add_image(img)
    \/ Return

SpecImages == InitPages /\ [][NextImages]_vars

\* Pages made from PNG streams on a new document.
NextPng ==
    \/ \E bytes \in PngStreams : add_png(bytes)
    \/ Return

SpecPng == InitNew /\ [][NextPng]_vars

\* Pages added and moved on every loaded page tree.
NextMoves ==
    \/ add_page(100, 200)
    \/ \E from \in Indices, to \in Indices : move_page(from, to)
    \/ Return

SpecMoves == InitPages /\ [][NextMoves]_vars

\* One call that can end in an error result, on every loaded document.
NextCalls ==
    \/ \E img \in Images : add_image(img)
    \/ \E link \in Uris, page \in Numbers : add_link(link, page)
    \/ \E page \in Numbers : remove_link(page)
    \/ \E from \in Numbers, to \in Numbers : move_link(from, to)
    \/ \E from \in Indices, to \in Indices : move_page(from, to)

SpecCalls == InitLinks /\ [][NextCalls]_vars

\* A document loaded from a file, by either of the two Pdf types.
NextLoad ==
    \/ \E file \in PdfFiles : load(file)
    \/ \E file \in PdfFiles : into(file)
    \/ Return

SpecLoad == InitLoad /\ [][NextLoad]_vars

\* The page tree index on every loaded page tree.
NextPages ==
    \/ add_page(100, 200)
    \/ \E from \in Indices, to \in Indices : move_page(from, to)
    \/ \E index \in Indices : CallFindPages(index)
    \/ \E index \in Indices, page_id \in Detached :
           CallInsert(index, page_id)
    \/ \E index \in Indices : CallRemove(index)
    \/ Return

SpecPages == InitPages /\ [][NextPages]_vars

-----------------------------------------------------------------------------
(* Properties of the page tree index, checked under SpecPages *)

PreLeaves == Leaves(last.pre, pages_id)

Without(seq, x) == SelectSeq(seq, LAMBDA y : y # x)

\* The child of `found.id` at position `found.pos` (from 0).
ChildAt(objs, found) == kids(objs[found.id])[found.pos + 1]

\* C1: after any sequence of add_page, Pages::insert, Pages::remove and
\* move_page on a tree whose counts were correct, the Count of every Pages
\* node is the number of Page leaves of its subtree.
C1_CountsMatchLeaves ==
    \A id \in DOMAIN objects :
        TypeOf(objects[id]) = "Pages" =>
            count(objects[id]) = Len(Leaves(objects, id))

\* C2: for every flat index i in 1..leaf_count, find_pages(i) returns a
\* Pages node and a position whose child is the i-th Page leaf of the
\* depth-first, left-to-right order.
C2_FindResolvesLeaf ==
    (last.op = "find_pages" /\ last.a \in 1..LeafCount) =>
        /\ last.res = "some"
        /\ TypeOf(objects[last.ret]) = "Pages"
        /\ last.pos < Len(kids(objects[last.ret]))
        /\ ChildAt(objects, [id |-> last.ret, pos |-> last.pos])
               = Leaves(objects, pages_id)[last.a]

\* find_pages resolved the second leaf to a position below a nested Pages
\* node.
C2_Witness ==
    /\ last.op = "find_pages"
    /\ last.a = 2
    /\ last.res = "some"
    /\ last.ret # pages_id
    /\ last.pos = 1

\* C3: Pages::insert at leaf_count + 1 appends the page at the end of the
\* root's Kids: the leaf count grows by one and the page is the last leaf.
C3_InsertPastEndAppends ==
    (last.op = "insert" /\ last.res = "ok" /\ last.a = Len(PreLeaves) + 1) =>
        /\ kids(objects[pages_id]) = Append(kids(last.pre[pages_id]), last.b)
        /\ Leaves(objects, pages_id) = Append(PreLeaves, last.b)

\* C4: for n >= 1 pages and from, to in 1..n, move_page(from, to) succeeds,
\* the moved page is the leaf at flat position to, the other pages keep
\* their order and the leaf count is still n.
C4_MovePlacesPage ==
    (/\ last.op = "move_page"
     /\ last.a \in 1..Len(PreLeaves)
     /\ last.b \in 1..Len(PreLeaves)) =>
        /\ last.res = "ok"
        /\ LeafCount = Len(PreLeaves)
        /\ Leaves(objects, pages_id)[last.b] = PreLeaves[last.a]
        /\ Without(Leaves(objects, pages_id), PreLeaves[last.a])
               = Without(PreLeaves, PreLeaves[last.a])

\* C5: move_page(i, i) changes neither the flat page order nor the leaf
\* count, for every i in 1..n.
C5_MoveToSelfNoChange ==
    (/\ last.op = "move_page"
     /\ last.a = last.b
     /\ last.a \in 1..Len(PreLeaves)) =>
        Leaves(objects, pages_id) = PreLeaves

\* C6: after Pages::insert(i, p) with i in 1..leaf_count and p a page not in
\* the tree, find_pages(i) resolves to p, there is exactly one leaf more and
\* the pages present before keep their order.
C6_InsertThenFind ==
    (last.op = "insert" /\ last.a \in 1..Len(PreLeaves)) =>
        /\ last.res = "ok"
        /\ LET found == find_pages(objects, TRUE, last.a, pages_id) IN
           /\ found.some
           /\ ChildAt(objects, found) = last.b
        /\ LeafCount = Len(PreLeaves) + 1
        /\ Without(Leaves(objects, pages_id), last.b) = PreLeaves

\* A page was inserted at flat index 2 of a tree of two pages.
C6_Witness ==
    /\ last.op = "insert"
    /\ last.a = 2
    /\ Len(PreLeaves) = 2
    /\ last.res = "ok"
    /\ Leaves(objects, pages_id)[2] = last.b

\* C7: for flat index 0 and for every flat index above the leaf count,
\* find_pages reports not-found without aborting and without changing the
\* tree, and so remove and move_page (from that index) fail, the tree
\* unchanged.
C7_OutOfRangeNotFound ==
    (/\ last.op \in {"find_pages", "remove", "move_page"}
     /\ last.a = 0 \/ last.a > Len(PreLeaves)) =>
        /\ last.res = IF last.op = "move_page" THEN "err" ELSE "none"
        /\ objects = last.pre

-----------------------------------------------------------------------------
(* Properties of the link annotations, checked under SpecLinks *)

\* The page the call's page number num named when the call was made.
PrePage(num) == PreLeaves[num]

\* C8: after a successful add_link(uri, page), whatever the page held
\* before, its Annots holds exactly one annotation, whose action is a URI
\* action with target uri and whose Rect is the page's MediaBox as it was
\* when the call was made.
C8_AddLinkSetsOneAnnotation ==
    (last.op = "add_link" /\ last.res = "ok") =>
        LET page == objects[PrePage(last.b)] IN
        /\ Has(page, "Annots")
        /\ Len(page.Annots) = 1
        /\ LET annot == objects[page.Annots[1]] IN
           /\ TypeOf(annot) = "Annot"
           /\ annot.Subtype = "Link"
           /\ objects[annot.A].S = "URI"
           /\ objects[annot.A].URI = last.a
           /\ annot.Rect = last.pre[PrePage(last.b)].MediaBox

\* add_link succeeded on a page that held another annotation before.
C8_Witness ==
    /\ last.op = "add_link"
    /\ last.res = "ok"
    /\ Has(last.pre[PrePage(last.b)], "Annots")
    /\ objects[PrePage(last.b)].Annots # last.pre[PrePage(last.b)].Annots

\* Both dictionaries hold the same Annots entry, or both hold none.
SameAnnots(d, e) ==
    /\ Has(d, "Annots") <=> Has(e, "Annots")
    /\ Has(d, "Annots") => d.Annots = e.Annots

\* C9 as stated: after move_link(src, dst) on existing pages, src = dst
\* included, src holds no annotation; dst holds src's annotation if src held
\* one, and what it held before if src held none.
C9_MoveLinkAsStated ==
    (last.op = "move_link" /\ last.res = "ok") =>
        LET src == PrePage(last.a)
            dst == PrePage(last.b)
        IN /\ ~Has(objects[src], "Annots")
           /\ IF Has(last.pre[src], "Annots")
              THEN /\ Has(objects[dst], "Annots")
                   /\ objects[dst].Annots = last.pre[src].Annots
              ELSE SameAnnots(objects[dst], last.pre[dst])

\* C9, amended: src holds no annotation afterwards when src # dst; dst holds
\* src's annotation if src held one, and what it held before if src held
\* none (so src = dst leaves the page's annotation as it was).
C9_MoveLink ==
    (last.op = "move_link" /\ last.res = "ok") =>
        LET src == PrePage(last.a)
            dst == PrePage(last.b)
        IN /\ src # dst => ~Has(objects[src], "Annots")
           /\ IF Has(last.pre[src], "Annots")
              THEN /\ Has(objects[dst], "Annots")
                   /\ objects[dst].Annots = last.pre[src].Annots
              ELSE SameAnnots(objects[dst], last.pre[dst])

\* move_link moved an annotation onto another page that held a different one.
C9_Witness ==
    /\ last.op = "move_link"
    /\ last.res = "ok"
    /\ last.a # last.b
    /\ Has(last.pre[PrePage(last.a)], "Annots")
    /\ Has(last.pre[PrePage(last.b)], "Annots")
    /\ last.pre[PrePage(last.a)].Annots # last.pre[PrePage(last.b)].Annots
    /\ objects[PrePage(last.b)].Annots = last.pre[PrePage(last.a)].Annots

-----------------------------------------------------------------------------
(* Properties of the pages made from images, checked under SpecImages *)

\* C10: a successful add_image of an image of W x H pixels creates exactly
\* one page, with MediaBox [0, 0, W, H] and the root as Parent, as the last
\* kid of the root and the last leaf; the leaf count and the root's Count
\* grow by exactly 1 and the pages present before keep their order.
C10_AddImageAppendsPage ==
    (last.op = "add_image" /\ last.res = "ok") =>
        /\ PageIds(objects) \ PageIds(last.pre) = {last.ret}
        /\ PageIds(last.pre) \subseteq PageIds(objects)
        /\ objects[last.ret].MediaBox = <<0, 0, last.a.width, last.a.height>>
        /\ objects[last.ret].Parent = pages_id
        /\ kids(objects[pages_id]) = Append(kids(last.pre[pages_id]), last.ret)
        /\ Leaves(objects, pages_id) = Append(PreLeaves, last.ret)
        /\ LeafCount = Len(PreLeaves) + 1
        /\ count(objects[pages_id]) = count(last.pre[pages_id]) + 1
        /\ last.pre = NewObjects => LeafCount = 1

\* add_image added a page to a tree of two pages, the first of them below a
\* nested Pages node.
C10_Witness ==
    /\ last.op = "add_image"
    /\ last.res = "ok"
    /\ Len(PreLeaves) = 2
    /\ last.pre[PreLeaves[1]].Parent # pages_id
    /\ Leaves(objects, pages_id)[3] = last.ret

-----------------------------------------------------------------------------
(* Properties of the pages made from PNG streams, checked under SpecPng *)

\* The image stream of the page the last call made.
LastImage == objects[objects[last.ret].Resources.XObject[1]]

\* The stream is one add_png takes as it is: neither interlaced nor with an
\* alpha channel.
Passthrough(bytes) == ~bytes.interlace /\ bytes.color_type < 4

\* C11: for every PNG that add_png accepts, the DecodeParms of the image
\* stream declare Predictor 15, Columns equal to the image width, and
\* BitsPerComponent and Colors equal to the bit depth and the channel count
\* of the PNG stream the IDAT was read from: the stream of the call when it
\* is taken as it is, else a non-interlaced stream without alpha.
C11_DecodeParmsMatchIdat ==
    (last.op = "add_png" /\ last.res = "ok") =>
        LET parms == LastImage.DecodeParms
            idat == LastImage.Content
        IN /\ parms.Predictor = 15
           /\ parms.Columns = last.a.width
           /\ parms.Columns = idat.columns
           /\ parms.BitsPerComponent = idat.depth
           /\ parms.Colors = idat.channels
           /\ Passthrough(last.a) => idat = get_idat(last.a)
           /\ ~Passthrough(last.a) =>
                  ~idat.interlace /\ idat.channels \in {1, 3}

-----------------------------------------------------------------------------
(* Properties of loading, checked under SpecLoad *)

\* The file has no catalog, or its catalog has no Pages entry, or the Pages
\* entry is not a reference.
Malformed(file) ==
    \/ ~catalog(file).ok
    \/ ~PagesReference(catalog(file).dict).ok

\* C14: load of a readable file whose catalog is absent, or has no Pages
\* entry, or has a Pages entry that is not a reference ends in an error
\* result given to the caller, never in a panic, and makes no Pdf value.
C14_LoadFailsWithError ==
    (last.op \in {"load", "into"} /\ last.a.readable /\ Malformed(last.a)) =>
        /\ last.res = "err"
        /\ objects = <<>>

-----------------------------------------------------------------------------
(* Properties of the Parent entries, checked under SpecMoves *)

\* C15: after any sequence of add_page and move_page on a loaded tree,
\* nested trees included, the Parent of every Page names the Pages node whose
\* Kids holds the page.
C15_ParentNamesContainer ==
    \A id \in DOMAIN objects :
        TypeOf(objects[id]) = "Pages" =>
            \A k \in Range(kids(objects[id])) :
                TypeOf(objects[k]) = "Page" => objects[k].Parent = id

-----------------------------------------------------------------------------
(* Properties of the error results, checked under SpecCalls *)

\* C13: when add_image, add_link, remove_link, move_link or move_page ends
\* in an error result, the page tree (the Kids and the Count of every Pages
\* node) and the annotation of every page are what they were before the call.
C13_ErrorLeavesDocument ==
    (/\ last.op \in {"add_image", "add_link", "remove_link", "move_link",
                     "move_page"}
     /\ last.res = "err") =>
        /\ DOMAIN objects = DOMAIN last.pre
        /\ \A id \in DOMAIN last.pre :
               /\ TypeOf(objects[id]) = TypeOf(last.pre[id])
               /\ TypeOf(last.pre[id]) = "Pages" =>
                      /\ kids(objects[id]) = kids(last.pre[id])
                      /\ count(objects[id]) = count(last.pre[id])
               /\ TypeOf(last.pre[id]) = "Page" =>
                      SameAnnots(objects[id], last.pre[id])

\* move_link ended in an error result for a destination that is no page,
\* the source being a page that holds an annotation.
C13_Witness ==
    /\ last.op = "move_link"
    /\ last.res = "err"
    /\ get_page_id(last.pre, pages_id, last.a).ok
    /\ Has(last.pre[get_page_id(last.pre, pages_id, last.a).id], "Annots")

====
